---- MODULE Spec2Model ----
(***************************************************************************)
(* Model of the LeetCode agent.                                            *)
(*                                                                         *)
(*   Spec      one automation run: LeetCodeAgent.start (core.py), with     *)
(*             the Solver (solve_problem -> AiAgent.chat), the Submitter   *)
(*             (writeAnswer) and the Verdict Reader (grab_result).         *)
(*   ToolSpec  the tool surface of server.py acting on the same page.      *)
(*   MainSpec  the process: main (main.py), the run inside the session     *)
(*             block, the teardown (browser.py) and the exit.              *)
(*   AgentSpec the conversation state of AiAgent (agent.py).               *)
(*                                                                         *)
(* Texts are sequences of tokens.  The language model, the page and the    *)
(* browser are the environment: every reply, panel text and failure they   *)
(* can produce is drawn with \E.  The browser session is used through the  *)
(* awaitable interface core.py and server.py call: acquiring it yields a   *)
(* page or raises.                                                         *)
(***************************************************************************)
EXTENDS Integers, Sequences, FiniteSets, TLC

VARIABLES
    pc,                   \* position of start(): see PcValues
    attempt,              \* core.py:93   the loop counter
    wrong_case,           \* core.py:48   failure details, oldest first
    result_code,          \* core.py:97   text solve_problem returned
    conversation_history, \* agent.py:128 roles of the recorded messages
    log,                  \* kinds of log line emitted so far
    propagated,           \* exception that left start(), or "none"
    editor,               \* page: content of the code editor
    clipboard,            \* page: content of the clipboard
    submitClicks,         \* page: clicks on the submit button
    lastSubmitted,        \* page: editor content at the last submit click
    pageOps,              \* page operations of the latest writeAnswer call
    browser_manager,      \* server.py:8  the process-wide session handle
    toolReturn,           \* server.py    what the latest tool call returned
    solverCalls,          \* history: calls of solve_problem
    writeCalls,           \* history: calls of writeAnswer by start()
    verdicts,             \* history: values grab_result returned
    lastRead,             \* history: what the page showed at the latest read
    lastChat,             \* history: outcome of the latest solve_problem chat
    rawReply,             \* history: the model's reply in that chat
    lastPrompt,           \* history: the prompt solve_problem sent in that chat
    fault,                \* history: where the environment raised, if it did
    recorded,             \* history: loop index at each append to wrong_case
    toolWrites,           \* history: write_solution_code calls on a session
    toolCode,             \* history: the code the latest such call was given
    proc,                 \* position of the process: see ProcValues
    args,                 \* main.py:94  the parsed command line
    credential,           \* environment: GOOGLE_API_KEY is set
    resources,            \* browser.py:136 self.resources: "None" or "set"
    live,                 \* browser resources started and not closed
    teardown,             \* "none", or how cleanup_playwright ended
    events,               \* what an observer of the process sees, in order
    exitStatus,           \* exit status of the process, -1 while it runs
    cause,                \* history: the error that ended the run
    interruptedAt,        \* history: where the user interrupt arrived
    original,             \* history: exception in flight when the block was left
    closeLog,             \* history: the resources the teardown closed, in order
    failedClose,          \* history: the resource whose close raised, or "none"
    chat_history,         \* agent.py:120 roles of the LangChain memory
    chatCalls,            \* history: calls of AiAgent.chat
    okChats,              \* history: chats answered by the model since the
                          \* histories were last started
    lastCall,             \* history: the latest method called on the AiAgent
    liveSessions,         \* tool surface: sessions opened and not closed
    lastTool,             \* history: the latest tool call
    files,                \* file system: the content of the file, or Absent
    lastChatTools,        \* history: what the tool calls of the latest chat did
    lastToolCall,         \* history: the latest call given to execute_tool_call
    toolResult,           \* history: what that call returned
    filesBefore,          \* history: the file system before that call
    logger                \* utils.py:30 the logger named leetcode_agent

runVars  == <<pc, attempt, wrong_case, result_code, conversation_history, log,
              propagated>>
pageVars == <<editor, clipboard, submitClicks, lastSubmitted, pageOps>>
toolVars == <<browser_manager, toolReturn>>
histVars == <<solverCalls, writeCalls, verdicts, lastRead, lastChat, rawReply,
              lastPrompt,
              fault, recorded, toolWrites, toolCode>>
procState == <<proc, args, credential, resources, live, teardown, events,
               exitStatus, cause, interruptedAt, original, closeLog,
               failedClose>>
procVars == <<procState, logger>>
fileVars == <<files, lastChatTools, lastToolCall, toolResult, filesBefore>>
agentVars == <<chat_history, chatCalls, okChats, lastCall, fileVars>>
sessVars == <<liveSessions, lastTool>>
vars     == <<runVars, pageVars, toolVars, histVars, procVars, agentVars,
              sessVars>>

----------------------------------------------------------------------------
(* Bounds of the model. *)

\* longest raw reply of the language model, in tokens
MaxReplyLen == 3
\* longest text of the result panel, in tokens
MaxPanelLen == 1
\* most write_solution_code calls of one tool session history
MaxToolCalls == 3

\* sessions the tool surface may hold open at once before the model stops
\* opening more
MaxSessions == 2

\* messages a conversation may hold before the model stops adding to it
MaxMessages == 4

\* calls of chat on one AiAgent
MaxChats == 3
MaxCallsPerReply == 1

(* Program constants. *)

\* core.py:94   while attempt < 5
max_attempts == 5

----------------------------------------------------------------------------
(* Texts. *)

SeqsUpTo(S, n) == UNION {[1..k -> S] : k \in 0..n}

\* the markdown code-fence marker (three backticks) as one token
Fence == "fence"
ReplyTokens == {Fence, "code"}
\* raw replies: code, with or without a fence marker opening and closing it
Replies ==
    {r \in SeqsUpTo(ReplyTokens, MaxReplyLen) :
        \A i \in 2..(Len(r) - 1) : r[i] = "code"}

\* core.py:189  the marker grab_result looks for
AcceptedMarker == "Accepted"
PanelTokens == {AcceptedMarker, "Wrong Answer"}
PanelTexts == SeqsUpTo(PanelTokens, MaxPanelLen)

\* agent.py:209 the text chat() returns when the model call raised
ErrorMsg == <<"Error generating response">>

\* the starter code the page shows before anything is written
Starter == <<"starter">>

\* Python: marker in text
Contains(text, marker) == \E i \in 1..Len(text) : text[i] = marker

HasLeadingFence(text)  == Len(text) > 0 /\ text[1] = Fence
HasTrailingFence(text) == Len(text) > 0 /\ text[Len(text)] = Fence

----------------------------------------------------------------------------
(* The state after construction: LeetCodeAgent.__init__ (core.py:30-54),   *)
(* the server module's globals (server.py:8), a page showing starter code. *)

NoTool == [name |-> "none", open |-> FALSE]

NoPrompt == [attempt |-> -1, details |-> <<>>, problem |-> FALSE,
             starter |-> FALSE]

NoRead == [attempt |-> -1, rendered |-> FALSE, present |-> FALSE, text |-> <<>>]

\* the file the tools work on does not exist
Absent == "absent"

NoCall == [name |-> "none", content |-> "a", overwrite |-> "omitted",
           badArgs |-> FALSE]

\* main.py:38-43: the choices of --log-level
Levels == {"DEBUG", "INFO", "WARNING", "ERROR"}

\* the logger before the first setup_logging: no level set, no handler
NoLogger == [level |-> "NOTSET", handlers |-> 0]

\* utils.py:16-51: the level is set, every handler is removed and one
\* console handler is added
setup_logging(lg, level) ==
    [level |-> IF level \in Levels THEN level ELSE "INFO",
     handlers |-> (lg.handlers - lg.handlers) + 1]

\* everything but the entry: main (main.py:86) builds a LeetCodeAgent whose
\* constructor (core.py:30-54) acquires nothing
StartState ==
    /\ pc = "new"
    /\ attempt = 0
    /\ wrong_case = <<>>
    /\ result_code = <<>>
    /\ conversation_history = <<>>
    /\ log = {}
    /\ propagated = "none"
    /\ editor = Starter
    /\ clipboard = <<>>
    /\ submitClicks = 0
    /\ lastSubmitted = <<>>
    /\ pageOps = <<>>
    /\ browser_manager = "None"
    /\ toolReturn = "none"
    /\ solverCalls = 0
    /\ writeCalls = 0
    /\ verdicts = <<>>
    /\ lastRead = NoRead
    /\ lastChat = "none"
    /\ rawReply = <<>>
    /\ lastPrompt = NoPrompt
    /\ fault = "none"
    /\ recorded = <<>>
    /\ toolWrites = 0
    /\ toolCode = <<>>
    /\ credential \in BOOLEAN
    /\ resources = "None"
    /\ live = {}
    /\ teardown = "none"
    /\ events = <<>>
    /\ exitStatus = -1
    /\ cause = "none"
    /\ interruptedAt = "none"
    /\ original = "none"
    /\ closeLog = <<>>
    /\ failedClose = "none"
    /\ chat_history = <<>>
    /\ chatCalls = 0
    /\ okChats = 0
    /\ lastCall = "none"
    /\ liveSessions = 0
    /\ lastTool = NoTool
    /\ files = Absent
    /\ lastChatTools = "none"
    /\ lastToolCall = NoCall
    /\ toolResult = "none"
    /\ filesBefore = Absent

\* the run is entered at LeetCodeAgent.start (core.py:56); the constructor
\* has set the logger up with its log_level (core.py:41)
Init ==
    /\ StartState
    /\ proc = "automation"
    /\ args = [interactive |-> FALSE, log_level |-> "INFO"]
    /\ logger = setup_logging(NoLogger, args.log_level)

\* an AiAgent is about to be built on its own (agent.py:75)
AgentInit ==
    /\ StartState
    /\ proc = "agent"
    /\ args = [interactive |-> FALSE, log_level |-> "INFO"]
    /\ logger = NoLogger

\* the process is entered at cli_main (main.py:190)
MainInit ==
    /\ StartState
    /\ proc = "cli"
    /\ args \in [interactive : BOOLEAN, log_level : Levels]
    /\ logger = NoLogger

\* the server has been imported and no tool has run (server.py:1-11)
ToolInit ==
    /\ StartState
    /\ proc = "automation"
    /\ args = [interactive |-> FALSE, log_level |-> "INFO"]
    /\ logger = NoLogger

----------------------------------------------------------------------------
(* AiAgent.chat (agent.py:165-211).  llm is what self.llm.invoke did:      *)
(* [ok |-> TRUE, content |-> reply] or [ok |-> FALSE].  The except branch  *)
(* turns every exception into the returned text; on success the user and   *)
(* the assistant message are appended (add_message, agent.py:153-163).     *)

LlmOutcomes == [ok : {TRUE}, content : Replies] \cup [ok : {FALSE}, content : {<<>>}]

ChatReturn(llm) == IF llm.ok THEN llm.content ELSE ErrorMsg

\* the user message is recorded although the model call failed
ChatHistoryKeepsUserMessage(history, llm) ==
    IF llm.ok THEN history \o <<"user", "assistant">> ELSE Append(history, "user")

\* agent.py:199-201 under the try of agent.py:167: the two messages are
\* added once the model call and the tool calls are over
ChatHistory(history, llm) ==
    IF llm.ok THEN history \o <<"user", "assistant">> ELSE history

\* the history starts with no message
NewHistoryEmpty == <<>>

\* AiAgent.__init__ (agent.py:128-130): the history starts with the system message
NewHistory == <<"system">>

(* LeetCodeAgent.solve_problem (core.py:197-233): both branches return     *)
(* what chat returned, as it is.                                           *)
SolveProblem(llm) == ChatReturn(llm)

\* every failure so far is sent
PromptSendsWholeHistory(a, history) ==
    [attempt |-> a, details |-> history, problem |-> a = 0, starter |-> a = 0]

\* core.py:207-232: what the prompt of attempt a is made of.  After the
\* first attempt it holds wrong_case[-1] alone; the first prompt holds the
\* problem text, the editor text and wrong_case[-1] if there is one.
Prompt(a, history) ==
    [attempt |-> a,
     details |-> IF history = <<>> THEN <<>> ELSE <<history[Len(history)]>>,
     problem |-> a = 0,
     starter |-> a = 0]

----------------------------------------------------------------------------
(* LeetCodeAgent.writeAnswer (core.py:235-281).  The page operations in    *)
(* the order the code issues them; raiseAt = 0 when none raises, else the  *)
(* index of the operation that raises (the ones before it have acted).     *)

\* the flag is ignored
\* the paste comes before the old content is deleted
WriteOpsPasteBeforeDelete(autoSubmit) ==
    <<"click_editor", "clipboard_write", "select_all", "paste", "delete">>
        \o (IF autoSubmit THEN <<"submit">> ELSE <<>>)

WriteOpsAlwaysSubmit(autoSubmit) ==
    <<"click_editor", "clipboard_write", "select_all", "delete", "paste", "submit">>

WriteOps(autoSubmit) ==
    <<"click_editor", "clipboard_write", "select_all", "delete", "paste">>
        \o (IF autoSubmit THEN <<"submit">> ELSE <<>>)

OpsDone(ops, raiseAt) == IF raiseAt = 0 THEN ops ELSE SubSeq(ops, 1, raiseAt - 1)

WriteAnswer(code, autoSubmit, raiseAt) ==
    LET done    == OpsDone(WriteOps(autoSubmit), raiseAt)
        newClip == IF Contains(done, "clipboard_write") THEN code ELSE clipboard
        newEd   == IF Contains(done, "paste") THEN newClip
                   ELSE IF Contains(done, "delete") THEN <<>>
                   ELSE editor
        clicked == Contains(done, "submit")
    IN  /\ pageOps' = done
        /\ clipboard' = newClip
        /\ editor' = newEd
        /\ submitClicks' = submitClicks + (IF clicked THEN 1 ELSE 0)
        /\ lastSubmitted' = IF clicked THEN newEd ELSE lastSubmitted

----------------------------------------------------------------------------
(* LeetCodeAgent.grab_result (core.py:175-195).  After the fixed wait the  *)
(* code reads the text of the result area: the read raises when no element *)
(* is there, and otherwise the text is classified by the marker alone.     *)

PageReads == [rendered : BOOLEAN, present : BOOLEAN, text : PanelTexts]

\* rendered: the verdict of this submission is on the page when the wait
\* ends; present: inner_text found the element and returned its text (a read
\* that raises returns no text)
PossibleRead(r) == ~r.present => r.text = <<>>

\* the marker is not looked at
GrabOutcomeIgnoresMarker(read) == IF ~read.present THEN "raise" ELSE "rejected"

\* a failed read is taken for a rejection
GrabOutcomeSwallowsErrors(read) ==
    IF read.present /\ Contains(read.text, AcceptedMarker) THEN "accepted"
    ELSE "rejected"

GrabOutcome(read) ==
    IF ~read.present THEN "raise"
    ELSE IF Contains(read.text, AcceptedMarker) THEN "accepted"
    ELSE "rejected"

\* the failure is not recorded
RecordFailureDrops(history, text) == history

\* only the latest failure is kept
RecordFailureOverwrites(history, text) == <<text>>

\* the failure is put in front
RecordFailureInFront(history, text) == <<text>> \o history

\* core.py:193  self.wrong_case.append(result_text)
RecordFailure(history, text) == Append(history, text)

\* what the read raises: Playwright's timeout when the awaited element never
\* shows, a page error when the page fails under a rendered verdict
ReadError(read) == IF read.rendered THEN "PageError" ELSE "TimeoutError"

----------------------------------------------------------------------------
(* LeetCodeAgent.start (core.py:56-121), one action per stretch between    *)
(* suspension points.                                                      *)

PcValues == {"new", "session", "solve", "write", "verdict", "report",
             "summary", "done", "failed"}

\* off by one
LoopGuardOffByOne(a) == a <= max_attempts

\* core.py:94   while attempt < 5
LoopGuard(a) == a < max_attempts

LoopHead(a) == IF LoopGuard(a) THEN "solve" ELSE "summary"

\* the break is missing: the loop goes on after the report
AfterReportNoBreak(a) ==
    [pc |-> IF a + 1 < max_attempts THEN "solve" ELSE "summary", attempt |-> a + 1]

\* core.py:113  break
AfterReport(a) == [pc |-> "summary", attempt |-> a]

\* no handler in start(): an exception leaves the loop and the method
Raise(kind) ==
    /\ pc' = "failed"
    /\ propagated' = kind

\* browser.py:39-76: what init_playwright does, in order
AcquireSteps == <<"driver", "browser", "context", "cookies", "page", "goto",
                  "storage">>

\* the steps of init_playwright that start a browser resource
Resources == {"driver", "browser", "context", "page"}

\* the resources started when init_playwright has completed its first n steps
Started(n) == {AcquireSteps[i] : i \in 1..n} \cap Resources

\* the session is entered although the credential is missing
StartOutcomesNoCredentialCheck(cred) == {"acquire"}

\* agent.py:96-101 under core.py:65-70: without a credential the AiAgent
\* constructor raises ValueError, before the block of core.py:72 is entered
StartOutcomes(cred) == IF cred THEN {"acquire"} ELSE {"config_error"}

\* core.py:63-72: the managers are built and the session block is entered.
\* Building a manager or entering the block may raise (browser.py declares
\* PlaywrightManager(lang, headless) as a synchronous context manager, while
\* start() passes headless alone and enters with async with); the loop is
\* what start() does once the block has been entered.  __enter__
\* (browser.py:140-155) stores the resources only when init_playwright has
\* returned: raiseAt is the step of init_playwright that raises, 0 for none.
EnterSession ==
    /\ pc = "new"
    /\ proc = "automation"
    /\ \E outcome \in StartOutcomes(credential) :
        IF outcome = "config_error"
        THEN /\ Raise("ValueError")
             /\ UNCHANGED <<conversation_history, chat_history, resources, live>>
        ELSE /\ conversation_history' = NewHistory
             /\ chat_history' = NewHistory
             /\ \E raiseAt \in 0..Len(AcquireSteps) :
                 IF raiseAt = 0
                 THEN /\ pc' = "session"
                      /\ resources' = "set"
                      /\ live' = Resources
                      /\ UNCHANGED propagated
                 ELSE /\ Raise("SessionError")
                      /\ live' = Started(raiseAt - 1)
                      /\ UNCHANGED resources
    /\ log' = log \cup {"starting"}
    /\ logger' = setup_logging(logger, "INFO")
    /\ UNCHANGED <<attempt, wrong_case, result_code, pageVars, toolVars,
                   histVars, proc, args, credential, teardown, events,
                   exitStatus, cause, interruptedAt, original, chatCalls, okChats, fileVars,
                   lastCall, sessVars,
                   closeLog, failedClose>>

\* core.py:73-93: login prompt, local storage, navigation, grabProblem
OpenProblem ==
    /\ pc = "session"
    /\ \E ok \in BOOLEAN :
        IF ok
        THEN /\ attempt' = 0
             /\ pc' = LoopHead(0)
             /\ UNCHANGED propagated
        ELSE /\ Raise("PageError")
             /\ UNCHANGED attempt
    /\ UNCHANGED <<wrong_case, result_code, conversation_history, log,
                   pageVars, toolVars, histVars, procVars, agentVars, sessVars>>

\* core.py:95-97: result_code = self.solve_problem(attempt)
Solve ==
    /\ pc = "solve"
    /\ solverCalls' = solverCalls + 1
    /\ IF attempt > 0 /\ wrong_case = <<>>
       THEN \* core.py:212  wrong_case[-1] of an empty list raises
            /\ Raise("IndexError")
            /\ log' = log \cup {"attempt"}
            /\ UNCHANGED <<result_code, conversation_history, chat_history,
                           lastChat, rawReply, lastPrompt>>
       ELSE /\ \E llm \in LlmOutcomes :
                /\ result_code' = SolveProblem(llm)
                /\ conversation_history' = ChatHistory(conversation_history, llm)
                /\ chat_history' = ChatHistory(chat_history, llm)
                /\ lastChat' = IF llm.ok THEN "ok" ELSE "error"
                /\ rawReply' = llm.content
                /\ log' = log \cup {"attempt"}
                               \cup (IF llm.ok THEN {} ELSE {"chat_error"})
            /\ lastPrompt' = Prompt(attempt, wrong_case)
            /\ pc' = "write"
            /\ UNCHANGED propagated
    /\ UNCHANGED <<attempt, wrong_case, pageVars, toolVars,
                   writeCalls, verdicts, lastRead, fault, recorded, toolWrites,
                   toolCode, procVars, chatCalls, okChats, fileVars, lastCall, sessVars>>

\* core.py:98: await self.writeAnswer(page, result_code)
Write ==
    /\ pc = "write"
    /\ writeCalls' = writeCalls + 1
    /\ \E raiseAt \in 0..Len(WriteOps(TRUE)) :
        /\ WriteAnswer(result_code, TRUE, raiseAt)
        /\ fault' = IF raiseAt = 0 THEN "none" ELSE "write"
        /\ IF raiseAt = 0
           THEN /\ pc' = "verdict"
                /\ log' = log \cup {"pasted", "submitted"}
                /\ UNCHANGED propagated
           ELSE /\ Raise("PageError")
                /\ log' = IF Contains(pageOps', "paste")
                          THEN log \cup {"pasted"} ELSE log
    /\ UNCHANGED <<attempt, wrong_case, result_code, conversation_history,
                   toolVars, solverCalls, verdicts, lastRead, lastChat,
                   rawReply, lastPrompt, recorded, toolWrites, toolCode, procVars,
                   agentVars, sessVars>>

\* core.py:99-114: if await self.grab_result(page): ... else attempt += 1
Verdict ==
    /\ pc = "verdict"
    /\ \E read \in PageReads :
        /\ PossibleRead(read)
        /\ lastRead' = [attempt |-> attempt, rendered |-> read.rendered,
                        present |-> read.present, text |-> read.text]
        /\ fault' = IF read.present THEN "none" ELSE "read"
        /\ CASE GrabOutcome(read) = "raise" ->
                  /\ Raise(ReadError(read))
                  /\ UNCHANGED <<attempt, wrong_case, log, verdicts, recorded>>
             [] GrabOutcome(read) = "accepted" ->
                  /\ pc' = "report"
                  /\ verdicts' = Append(verdicts, TRUE)
                  /\ log' = log \cup {"accepted", "solved"}
                  /\ UNCHANGED <<attempt, wrong_case, propagated, recorded>>
             [] GrabOutcome(read) = "rejected" ->
                  /\ wrong_case' = RecordFailure(wrong_case, read.text)
                  /\ recorded' = Append(recorded, attempt)
                  /\ verdicts' = Append(verdicts, FALSE)
                  /\ log' = log \cup {"not_accepted"}
                  /\ attempt' = attempt + 1
                  /\ pc' = LoopHead(attempt + 1)
                  /\ UNCHANGED propagated
    /\ UNCHANGED <<result_code, conversation_history, pageVars, toolVars,
                   solverCalls, writeCalls, lastChat, rawReply, lastPrompt, toolWrites,
                   toolCode, procVars, agentVars, sessVars>>

\* core.py:100-113: the follow-up chat asking for the write-up, then break
Report ==
    /\ pc = "report"
    /\ \E llm \in LlmOutcomes :
        /\ conversation_history' = ChatHistory(conversation_history, llm)
        /\ chat_history' = ChatHistory(chat_history, llm)
        /\ log' = log \cup (IF llm.ok THEN {} ELSE {"chat_error"})
    /\ pc' = AfterReport(attempt).pc
    /\ attempt' = AfterReport(attempt).attempt
    /\ UNCHANGED <<wrong_case, result_code, propagated, pageVars, toolVars,
                   histVars, procVars, chatCalls, okChats, fileVars, lastCall, sessVars>>

\* core.py:116-121: the conversation summary is logged and the block is left
Summary ==
    /\ pc = "summary"
    /\ pc' = "done"
    /\ log' = log \cup {"summary"}
    /\ UNCHANGED <<attempt, wrong_case, result_code, conversation_history,
                   propagated, pageVars, toolVars, histVars, procVars,
                   agentVars, sessVars>>

Next == EnterSession \/ OpenProblem \/ Solve \/ Write \/ Verdict \/ Report \/ Summary

Spec == Init /\ [][Next]_vars

----------------------------------------------------------------------------
(* The conversation state of an AiAgent (agent.py): conversation_history   *)
(* and the LangChain memory chat_history, each as the roles of its         *)
(* messages in order.                                                      *)

\* agent.py:153-163: the roles add_message may be given
Roles == {"system", "user", "assistant", "tool"}

\* the message is put in front
AddToHistoryInFront(history, role) == <<role>> \o history

\* agent.py:156-157
AddToHistory(history, role) == Append(history, role)

\* agent.py:160-163: the memory takes user and assistant messages only
AddToMemory(memory, role) ==
    IF role \in {"user", "assistant"} THEN Append(memory, role) ELSE memory

\* agent.py:96-130: the constructor raises without a credential, and
\* otherwise starts both histories with the system message
NewAgent ==
    /\ proc = "agent"
    /\ IF credential
       THEN /\ proc' = "chatting"
            /\ conversation_history' = NewHistory
            /\ chat_history' = NewHistory
            /\ logger' = setup_logging(logger, "INFO")
            /\ UNCHANGED cause
       ELSE /\ proc' = "exited"
            /\ cause' = "ValueError"
            /\ UNCHANGED <<conversation_history, chat_history, logger>>
    /\ UNCHANGED <<pc, attempt, wrong_case, result_code, log, propagated,
                   pageVars, toolVars, histVars, args, credential, resources,
                   live, teardown, events, exitStatus, interruptedAt,
                   original, chatCalls, okChats, fileVars, lastCall, sessVars,
                   closeLog, failedClose>>

----------------------------------------------------------------------------
(* The file tools of the AiAgent (agent.py). The model bound to the tools  *)
(* answers with calls, each a name and the arguments the model chose; the  *)
(* arguments reach the handler as they came (agent.py:143), so an argument *)
(* the model left out takes the default of the handler's signature. One    *)
(* file path stands for the file system.                                   *)

\* agent.py:114
ToolNames == {"CreateFile", "ReadFile", "ListFiles"}

FileContents == {"a", "b"}

\* agent.py:136-138: a call of the model: any name, the content and the
\* overwrite argument of a CreateFile call (given as true, given as false,
\* or left out), and whether the arguments fit the handler's signature
ToolCalls ==
    {c \in [name : ToolNames \cup {"DeleteFile"}, content : FileContents,
            overwrite : {"true", "false", "omitted"}, badArgs : BOOLEAN] :
        /\ (c.name # "CreateFile" \/ c.badArgs)
               => (c.content = "a" /\ c.overwrite = "omitted")
        /\ c.name \notin ToolNames => ~c.badArgs}

ToolCallSeqs == SeqsUpTo(ToolCalls, MaxCallsPerReply)

\* agent.py:282: the default of the handler's overwrite parameter
create_file_overwrite == TRUE

\* agent.py:143: create_file(**tool_args) binds the arguments of the call
OverwriteArg(call) ==
    IF call.overwrite = "omitted" THEN create_file_overwrite
    ELSE call.overwrite = "true"

\* agent.py:281-315
create_file(fs, content, overwrite) ==
    IF fs # Absent /\ ~overwrite
    THEN [result |-> "already_exists", files |-> fs]
    ELSE [result |-> IF fs = Absent THEN "created" ELSE "overwritten",
          files |-> content]

\* agent.py:317-337
read_file(fs) ==
    [result |-> IF fs = Absent THEN "not_found" ELSE "content", files |-> fs]

\* agent.py:339-374
list_files(fs) == [result |-> "listing", files |-> fs]

\* agent.py:141-147: the handler the name selects
RunHandler(call, fs) ==
    IF call.name = "CreateFile"
    THEN create_file(fs, call.content, OverwriteArg(call))
    ELSE IF call.name = "ReadFile" THEN read_file(fs) ELSE list_files(fs)

\* the exception of a handler leaves execute_tool_call
ExecuteToolCallLetsErrorsOut(call, fs) ==
    IF call.name \notin ToolNames
    THEN [result |-> "unknown_tool", files |-> fs]
    ELSE IF call.badArgs
         THEN [result |-> "raise", files |-> fs]
         ELSE RunHandler(call, fs)

\* agent.py:136-151: the result is a string in every case; "raise" stands
\* for an exception leaving the method
ExecuteToolCall(call, fs) ==
    IF call.name \notin ToolNames
    THEN [result |-> "unknown_tool", files |-> fs]
    ELSE IF call.badArgs
         THEN [result |-> "error", files |-> fs]
         ELSE RunHandler(call, fs)

RECURSIVE RunTools(_, _)
\* agent.py:187-196: the calls of one response run in order; an exception
\* ends the loop
RunTools(calls, fs) ==
    IF calls = <<>>
    THEN [results |-> <<>>, files |-> fs]
    ELSE LET first == ExecuteToolCall(Head(calls), fs)
         IN  IF first.result = "raise"
             THEN [results |-> <<"raise">>, files |-> first.files]
             ELSE LET rest == RunTools(Tail(calls), first.files)
                  IN  [results |-> <<first.result>> \o rest.results,
                       files |-> rest.files]

\* what the tool calls of one chat came to
ToolsSummary(results) ==
    IF results = <<>> THEN "none"
    ELSE IF Contains(results, "raise") THEN "raised"
    ELSE IF Contains(results, "error") \/ Contains(results, "unknown_tool")
         THEN "failed"
         ELSE "ran"

\* agent.py:165-211: the tool calls of the response run before the two
\* messages are appended; an exception on the way is caught at 208-211 and
\* nothing is appended. The text of the reply goes to the caller and into no
\* variable, so the replies are told apart by their outcome only
chat ==
    /\ proc = "chatting"
    /\ chatCalls < MaxChats
    /\ \E llm \in {l \in LlmOutcomes : l.content = <<>>},
          calls \in ToolCallSeqs :
        LET run == RunTools(calls, files)
            done == [llm EXCEPT !.ok = llm.ok /\ ~Contains(run.results, "raise")]
        IN  /\ llm.ok => Len(conversation_history) < MaxMessages
            /\ ~llm.ok => calls = <<>>
            /\ conversation_history' = ChatHistory(conversation_history, done)
            /\ chat_history' = ChatHistory(chat_history, done)
            /\ lastChat' = IF llm.ok THEN "ok" ELSE "error"
            /\ log' = log \cup (IF done.ok THEN {} ELSE {"chat_error"})
            /\ files' = run.files
            /\ lastChatTools' = ToolsSummary(run.results)
            /\ okChats' = IF llm.ok THEN okChats + 1 ELSE okChats
    /\ chatCalls' = chatCalls + 1
    /\ lastCall' = "chat"
    /\ UNCHANGED <<pc, attempt, wrong_case, result_code, propagated, pageVars,
                   toolVars, solverCalls, writeCalls, verdicts, lastRead,
                   rawReply, lastPrompt, fault, recorded, toolWrites, toolCode, procVars,
                   sessVars, lastToolCall, toolResult, filesBefore>>

\* agent.py:136-151: the method called on its own
execute_tool_call ==
    /\ proc = "chatting"
    /\ \E call \in ToolCalls :
        LET run == ExecuteToolCall(call, files)
        IN  /\ files' = run.files
            /\ toolResult' = run.result
            /\ lastToolCall' = call
            /\ filesBefore' = files
    /\ lastCall' = "execute_tool_call"
    /\ UNCHANGED <<runVars, pageVars, toolVars, histVars, procVars,
                   chat_history, chatCalls, okChats, lastChatTools, sessVars>>

\* agent.py:153-163
add_message ==
    /\ proc = "chatting"
    /\ Len(conversation_history) < MaxMessages
    /\ \E role \in Roles :
        /\ conversation_history' = AddToHistory(conversation_history, role)
        /\ chat_history' = AddToMemory(chat_history, role)
    /\ lastCall' = "add_message"
    /\ UNCHANGED <<pc, attempt, wrong_case, result_code, log, propagated,
                   pageVars, toolVars, histVars, procVars, chatCalls, okChats, fileVars, sessVars>>

\* agent.py:213-227
clear_conversation ==
    /\ proc = "chatting"
    /\ conversation_history' = NewHistory
    /\ chat_history' = NewHistory
    /\ log' = log \cup {"cleared"}
    /\ okChats' = 0
    /\ lastCall' = "clear_conversation"
    /\ UNCHANGED <<pc, attempt, wrong_case, result_code, propagated, pageVars,
                   toolVars, histVars, procVars, chatCalls, fileVars, sessVars>>

AgentNext == NewAgent \/ chat \/ add_message \/ clear_conversation

AgentSpec == AgentInit /\ [][AgentNext]_vars

\* the agent with its file tools: the constructor, chat and the tool
\* dispatch
FileNext == NewAgent \/ chat \/ execute_tool_call

FileSpec == AgentInit /\ [][FileNext]_vars

\* the agent used through chat and clear_conversation only
ChatNext == NewAgent \/ chat \/ clear_conversation

ChatSpec == AgentInit /\ [][ChatNext]_vars

----------------------------------------------------------------------------
(* The process (main.py) around the run, and the teardown of the session   *)
(* (browser.py).  Everything from an exception in the block to the exit of *)
(* the process is synchronous code; it is split into the steps an observer *)
(* can tell apart, which are appended to events in the order they happen.  *)

ProcValues == {"cli", "calling", "automation", "interactive", "exited",
               "agent", "chatting"}

\* main.py:93-112: the arguments are parsed, logging is set up, and the
\* mode is chosen
main ==
    /\ proc = "cli"
    /\ proc' = IF args.interactive THEN "interactive" ELSE "calling"
    /\ logger' = LET first == setup_logging(logger, args.log_level)
                 IN  IF args.interactive THEN first
                     ELSE setup_logging(first, args.log_level)
    /\ UNCHANGED <<runVars, pageVars, toolVars, histVars, args, credential,
                   resources, live, teardown, events, exitStatus, cause,
                   interruptedAt, original, agentVars, sessVars,
                   closeLog, failedClose>>

\* main.py:112 awaits agent.start_automation(url).  The method is the run
\* of the retry controller: it does what LeetCodeAgent.start does.
start_automation ==
    /\ proc = "calling"
    /\ proc' = "automation"
    /\ UNCHANGED <<runVars, pageVars, toolVars, histVars, args, credential,
                   resources, live, teardown, events, exitStatus, cause,
                   interruptedAt, original, agentVars, sessVars, logger,
                   closeLog, failedClose>>

\* core.py:93-121: the control flow of the block once the problem is open,
\* without the texts (Spec follows the same steps with them): the reply, the
\* write, the verdict, the report and the summary
RunStep ==
    /\ proc = "automation"
    /\ \/ /\ pc = "solve"
          /\ pc' = "write"
          /\ UNCHANGED <<attempt, propagated>>
       \/ /\ pc = "write"
          /\ \E ok \in BOOLEAN :
                 IF ok THEN pc' = "verdict" /\ UNCHANGED propagated
                 ELSE Raise("PageError")
          /\ UNCHANGED attempt
       \/ /\ pc = "verdict"
          /\ \E outcome \in {"raise", "accepted", "rejected"} :
                 IF outcome = "raise"
                 THEN Raise("TimeoutError") /\ UNCHANGED attempt
                 ELSE IF outcome = "accepted"
                 THEN pc' = "report" /\ UNCHANGED <<attempt, propagated>>
                 ELSE /\ attempt' = attempt + 1
                      /\ pc' = LoopHead(attempt + 1)
                      /\ UNCHANGED propagated
       \/ /\ pc = "report"
          /\ pc' = AfterReport(attempt).pc
          /\ attempt' = AfterReport(attempt).attempt
          /\ UNCHANGED propagated
       \/ /\ pc = "summary"
          /\ pc' = "done"
          /\ UNCHANGED <<attempt, propagated>>
    /\ UNCHANGED <<wrong_case, result_code, conversation_history, log,
                   pageVars, toolVars, histVars, procVars, agentVars, sessVars>>

\* what the run is waiting for at each of its positions inside the block
SuspensionPoint(at) ==
    CASE at = "session" -> "page_load"
      [] at \in {"solve", "report"} -> "model_response"
      [] at = "write" -> "page_write"
      [] at = "verdict" -> "verdict"
      [] at = "summary" -> "final_wait"

\* the user interrupts the run while it waits inside the block.  The
\* interrupt reaches the coroutine as KeyboardInterrupt when it is raised in
\* the running code, and as CancelledError when asyncio.run (main.py:191)
\* answers the signal by cancelling the coroutine of main.
Interrupt ==
    /\ proc = "automation"
    /\ pc \in {"session", "solve", "write", "verdict", "report", "summary"}
    /\ \E kind \in {"KeyboardInterrupt", "CancelledError"} : Raise(kind)
    /\ interruptedAt' = SuspensionPoint(pc)
    /\ events' = Append(events, "interrupt")
    /\ UNCHANGED <<attempt, wrong_case, result_code, conversation_history, log,
                   pageVars, toolVars, histVars, proc, args, credential,
                   resources, live, teardown, exitStatus, cause, original,
                   agentVars, sessVars, logger,
                   closeLog, failedClose>>

\* the driver is stopped first
CleanupOrderDriverFirst == <<"driver", "browser", "context", "page">>

\* browser.py:92-99: the order in which cleanup_playwright closes
CleanupOrder == <<"page", "context", "browser", "driver">>

\* browser.py:91-101: the closes share one try block, so the first close
\* that raises ends the cleanup; raiseAt is its position, 0 when none raises
ClosedInOrder(raiseAt) ==
    SubSeq(CleanupOrder, 1, IF raiseAt = 0 THEN Len(CleanupOrder) ELSE raiseAt - 1)

Closed(raiseAt) == {ClosedInOrder(raiseAt)[i] : i \in 1..Len(ClosedInOrder(raiseAt))}

\* the teardown is skipped when the block is left by an interrupt
RunsExitOnErrorsOnly(kind) == kind \notin {"KeyboardInterrupt", "CancelledError"}

\* browser.py:157-159: __exit__ is called however the block is left
RunsExit(kind) == TRUE

\* an error of the cleanup replaces the exception in flight
AfterExitCleanupErrorWins(inFlight, cleanupRaised) ==
    IF cleanupRaised THEN "CleanupError" ELSE inFlight

\* browser.py:100-101 and 186: the error of a close is caught and printed,
\* and __exit__ returns False: the exception in flight goes on to the caller
AfterExit(inFlight, cleanupRaised) == inFlight

\* the block has been left and __exit__ has not run yet
ExitPending ==
    /\ pc \in {"done", "failed"}
    /\ resources = "set"
    /\ teardown = "none"
    /\ RunsExit(propagated)

\* browser.py:157-186 with cleanup_playwright (browser.py:81-101)
ExitSession ==
    /\ ExitPending
    /\ \E raiseAt \in 0..Len(CleanupOrder) :
        /\ live' = live \ Closed(raiseAt)
        /\ closeLog' = ClosedInOrder(raiseAt)
        /\ failedClose' = IF raiseAt = 0 THEN "none" ELSE CleanupOrder[raiseAt]
        /\ teardown' = IF raiseAt = 0 THEN "completed" ELSE "aborted"
        /\ propagated' = AfterExit(propagated, raiseAt # 0)
        /\ log' = log \cup {"cleaning_up", "cleanup_completed"}
                       \cup (IF raiseAt # 0 THEN {"cleanup_error"} ELSE {})
                       \cup (IF propagated # "none" THEN {"exception"} ELSE {})
    /\ original' = propagated
    /\ events' = Append(events, "teardown")
    /\ UNCHANGED <<pc, attempt, wrong_case, result_code, conversation_history,
                   pageVars, toolVars, histVars, proc, args, credential,
                   resources, exitStatus, cause, interruptedAt, agentVars,
                   sessVars, logger>>

\* the process exits without a word
HandlerOutcomeSilent(kind) ==
    [diagnostic |-> FALSE, status |-> IF kind = "none" THEN 0 ELSE 1]

\* main.py:114-119 under cli_main (main.py:190-191): what main does with
\* the way the run ended.  CancelledError is not an Exception: it leaves
\* main, and asyncio.run ends the process with the interrupt.
HandlerOutcome(kind) ==
    CASE kind = "none" -> [diagnostic |-> FALSE, status |-> 0]
      [] kind = "KeyboardInterrupt" -> [diagnostic |-> TRUE, status |-> 0]
      [] kind = "CancelledError" -> [diagnostic |-> FALSE, status |-> 130]
      [] OTHER -> [diagnostic |-> TRUE, status |-> 1]

\* main.py:113-119: the run has returned or raised, and the process exits
MainExit ==
    /\ proc = "automation"
    /\ pc \in {"done", "failed"}
    /\ ~ExitPending
    /\ events' = events
                  \o (IF HandlerOutcome(propagated).diagnostic
                      THEN <<"diagnostic">> ELSE <<>>)
                  \o <<"exit">>
    /\ exitStatus' = HandlerOutcome(propagated).status
    /\ cause' = propagated
    /\ proc' = "exited"
    /\ UNCHANGED <<runVars, pageVars, toolVars, histVars, args, credential,
                   resources, live, teardown, interruptedAt, original,
                   agentVars, sessVars, logger,
                   closeLog, failedClose>>

\* main.py:190-191: cli_main runs main and drops what it returns, so the
\* process ends with status 0 whenever main returns
ProcessStatus(returned) == 0

\* main.py:122-187 under cli_main: the AiAgent is built, then the chat loop
\* runs until the user quits or an exception reaches the outer handler,
\* which prints it and returns 1.  chat (agent.py:165) is not a coroutine:
\* awaiting what it returns (main.py:160) raises TypeError after the chat.
interactive_mode ==
    /\ proc = "interactive"
    /\ IF ~credential
       THEN /\ cause' = "ValueError"
            /\ events' = events \o <<"diagnostic", "exit">>
            /\ exitStatus' = ProcessStatus(1)
            /\ UNCHANGED <<conversation_history, chat_history>>
       ELSE \E said \in {"quit", "interrupt", "message"} :
              IF said = "message"
              THEN /\ \E llm \in LlmOutcomes :
                       /\ conversation_history' = ChatHistory(NewHistory, llm)
                       /\ chat_history' = ChatHistory(NewHistory, llm)
                   /\ cause' = "TypeError"
                   /\ events' = events \o <<"diagnostic", "exit">>
                   /\ exitStatus' = ProcessStatus(1)
              ELSE /\ conversation_history' = NewHistory
                   /\ chat_history' = NewHistory
                   /\ cause' = "none"
                   /\ events' = events \o <<"exit">>
                   /\ exitStatus' = ProcessStatus(0)
    /\ logger' = IF credential THEN setup_logging(logger, "INFO") ELSE logger
    /\ proc' = "exited"
    /\ UNCHANGED <<pc, attempt, wrong_case, result_code, log, propagated,
                   pageVars, toolVars, histVars, args, credential, resources,
                   live, teardown, interruptedAt, original, chatCalls, okChats, fileVars,
                   lastCall, sessVars,
                   closeLog, failedClose>>

MainNext ==
    \/ main
    \/ start_automation
    \/ interactive_mode
    \/ EnterSession
    \/ OpenProblem
    \/ RunStep
    \/ Interrupt
    \/ ExitSession
    \/ MainExit

MainSpec == MainInit /\ [][MainNext]_vars

----------------------------------------------------------------------------
(* The tool surface (server.py).  Each tool is one action; a tool that     *)
(* raises leaves "raised" as its return.                                   *)

\* server.py:11
no_browser_session_message == "No browser session found."

\* the guard never fires
NoSessionNever(handle) == FALSE

\* server.py:62, 77, 95, 121, 137   if not browser_manager
NoSession(handle) == handle = "None"

\* server.py:14-47: the handle is overwritten as soon as a session is
\* acquired, whatever it held before; the navigation and the cookie lookup
\* that follow may still raise
access_leetcode_web ==
    /\ \E outcome \in {"init_raises", "page_raises", "logged_in", "not_logged_in"} :
        /\ outcome # "init_raises" => liveSessions < MaxSessions
        /\ browser_manager' = IF outcome = "init_raises" THEN browser_manager
                              ELSE "open"
        /\ liveSessions' = IF outcome = "init_raises" THEN liveSessions
                            ELSE liveSessions + 1
        /\ toolReturn' = CASE outcome \in {"init_raises", "page_raises"} -> "raised"
                           [] outcome = "logged_in" -> "opened_logged_in"
                           [] outcome = "not_logged_in" -> "opened_not_logged_in"
        /\ IF outcome = "init_raises"
           THEN UNCHANGED <<editor, pageOps>>
           ELSE editor' = Starter /\ pageOps' = <<>>
    /\ lastTool' = [name |-> "access_leetcode_web",
                     open |-> browser_manager # "None"]
    /\ UNCHANGED <<runVars, clipboard, submitClicks, lastSubmitted, histVars,
                   procVars, agentVars>>

\* the branch every tool but access_leetcode_web and close_browser starts
\* with: the message is returned and the page is not touched
NoSessionReturn(name) ==
    /\ toolReturn' = no_browser_session_message
    /\ pageOps' = <<>>
    /\ lastTool' = [name |-> name, open |-> FALSE]
    /\ UNCHANGED <<runVars, editor, clipboard, submitClicks, lastSubmitted,
                   browser_manager, histVars, procVars, agentVars, liveSessions>>

\* a tool that drives the page through ops and returns ret; a page
\* operation that raises ends the tool. A tool that builds a LeetCodeAgent
\* for the operation (server.py:80, 97) sets the logger up through its
\* constructor (core.py:41)
PageTool(name, ops, ret, loadsPage, buildsAgent) ==
    IF NoSession(browser_manager)
    THEN NoSessionReturn(name)
    ELSE /\ \E raiseAt \in 0..Len(ops) :
             /\ pageOps' = OpsDone(ops, raiseAt)
             /\ toolReturn' = IF raiseAt = 0 THEN ret ELSE "raised"
             /\ editor' = IF loadsPage /\ raiseAt = 0 THEN Starter ELSE editor
         /\ lastTool' = [name |-> name, open |-> browser_manager # "None"]
         /\ logger' = IF buildsAgent THEN setup_logging(logger, "INFO")
                      ELSE logger
         /\ UNCHANGED <<runVars, clipboard, submitClicks, lastSubmitted,
                        browser_manager, histVars, procState, agentVars,
                        liveSessions>>

\* server.py:50-66
goto_url == PageTool("goto_url", <<"goto">>, "navigated", TRUE, FALSE)

\* server.py:69-84 with core.py:123-142
go_to_daily_problem ==
    PageTool("go_to_daily_problem", <<"goto", "click", "wait_for_load_state">>,
             "navigated_daily", TRUE, TRUE)

\* server.py:87-105 with core.py:144-173
get_problem_description ==
    PageTool("get_problem_description", <<"click", "inner_text", "inner_text">>,
             "description", FALSE, TRUE)

\* server.py:114: the code a caller passes holds no code-fence markup
ToolCodes == {r \in Replies : ~Contains(r, Fence)}

\* server.py:108-127: writeAnswer(page, code, autoSubmit=False)
write_solution_code ==
    \E code \in ToolCodes :
        IF NoSession(browser_manager)
        THEN NoSessionReturn("write_solution_code")
        ELSE /\ toolWrites < MaxToolCalls
             /\ toolWrites' = toolWrites + 1
             /\ toolCode' = code
             /\ \E raiseAt \in 0..Len(WriteOps(FALSE)) :
                 /\ WriteAnswer(code, FALSE, raiseAt)
                 /\ toolReturn' = IF raiseAt = 0 THEN "written" ELSE "raised"
             /\ lastTool' = [name |-> "write_solution_code",
                             open |-> browser_manager # "None"]
             /\ logger' = setup_logging(logger, "INFO")
             /\ UNCHANGED <<runVars, browser_manager, solverCalls, writeCalls,
                            verdicts, lastRead, lastChat, rawReply, lastPrompt,
                            fault, recorded, procState, agentVars, liveSessions>>

\* the handle survives the close
AfterCloseKeepsHandle(handle) == handle

\* server.py:141   browser_manager = None
AfterClose(handle) == "None"

\* server.py:130-142: the session under the handle is cleaned up and the
\* handle is reset.  cleanup_playwright swallows the error of a close
\* (browser.py:100-101), so the tool goes on when the cleanup was cut short
\* and the session is then still live.
close_browser ==
    /\ IF NoSession(browser_manager)
       THEN /\ toolReturn' = "Browser has already been closed."
            /\ UNCHANGED <<browser_manager, liveSessions>>
       ELSE /\ browser_manager' = AfterClose(browser_manager)
            /\ \E raiseAt \in 0..Len(CleanupOrder) :
                   liveSessions' = IF raiseAt = 0 THEN liveSessions - 1
                                   ELSE liveSessions
            /\ toolReturn' = "Browser closed."
    /\ pageOps' = <<>>
    /\ lastTool' = [name |-> "close_browser", open |-> browser_manager # "None"]
    /\ UNCHANGED <<runVars, editor, clipboard, submitClicks, lastSubmitted,
                   histVars, procVars, agentVars>>

ToolNext ==
    \/ access_leetcode_web
    \/ goto_url
    \/ go_to_daily_problem
    \/ get_problem_description
    \/ write_solution_code
    \/ close_browser

ToolSpec == ToolInit /\ [][ToolNext]_vars

----------------------------------------------------------------------------
(* Properties of the retry loop (checked under Spec).                      *)

Accepted == verdicts # <<>> /\ verdicts[Len(verdicts)]

AllRejected(n) == Len(verdicts) = n /\ \A i \in 1..n : ~verdicts[i]

RejectedCount == Cardinality({i \in 1..Len(verdicts) : ~verdicts[i]})

IsPrefix(s, t) == Len(s) <= Len(t) /\ \A i \in 1..Len(s) : s[i] = t[i]

\* steps start() still has to take, at most: three per remaining attempt
Rank ==
    CASE pc = "new"     -> 3 * max_attempts + 5
      [] pc = "session" -> 3 * max_attempts + 4
      [] pc = "solve"   -> 3 * (max_attempts - attempt) + 3
      [] pc = "write"   -> 3 * (max_attempts - attempt) + 2
      [] pc = "verdict" -> 3 * (max_attempts - attempt) + 1
      [] pc = "report"  -> 2
      [] pc = "summary" -> 1
      [] OTHER          -> 0

\* C1: whatever the verdicts are, one run of the retry loop calls
\* solve_problem at most max_attempts times, and it terminates: every step
\* of start() strictly lowers a rank that is a natural number.
C1_BoundedSolverCalls ==
    /\ [](solverCalls <= max_attempts /\ Rank \in Nat)
    /\ [][Rank' < Rank]_vars

C1_Witness == pc = "done" /\ solverCalls = max_attempts /\ AllRejected(max_attempts)

\* C2: once grab_result has returned accepted on attempt k, the run calls
\* neither solve_problem nor writeAnswer again and stays at attempt k.
C2_StopsOnAccepted ==
    [][Accepted => /\ solverCalls' = solverCalls
                   /\ writeCalls' = writeCalls
                   /\ attempt' = attempt
                   /\ verdicts' = verdicts]_vars

C2_Witness == pc = "done" /\ verdicts = <<FALSE, TRUE>> /\ solverCalls = 2

\* C3: when writeAnswer or grab_result raises in an attempt, the run is
\* aborted with an exception (not a rejection): no verdict and no failure
\* detail is recorded for that attempt and no further attempt starts.
C3_ErrorsAbortTheLoop ==
    fault \in {"write", "read"} =>
        /\ pc = "failed"
        /\ propagated \in {"PageError", "TimeoutError"}
        /\ Len(wrong_case) = attempt
        /\ Len(verdicts) = attempt
        /\ solverCalls = attempt + 1

C3_Witness ==
    /\ fault = "read" /\ pc = "failed" /\ attempt = 1
    /\ Len(wrong_case) = 1 /\ lastRead.attempt = 1

\* C4: if no result panel has rendered when the wait of grab_result ends on
\* attempt 0, the run fails with a timeout and attempt 0 is not recorded as
\* rejected (nothing is appended to wrong_case).
C4_TimeoutIsNotRejection ==
    (lastRead.attempt = 0 /\ ~lastRead.rendered) =>
        /\ pc = "failed"
        /\ propagated = "TimeoutError"
        /\ wrong_case = <<>>
        /\ verdicts = <<>>

\* C5: when the model call fails inside solve_problem the run is aborted
\* with an error, and the error text is never the candidate solution, never
\* in the editor and never submitted.
C5_ModelFailureSurfaced ==
    /\ lastChat = "error" => (pc = "failed" /\ propagated = "ModelProviderError")
    /\ result_code # ErrorMsg
    /\ editor # ErrorMsg
    /\ lastSubmitted # ErrorMsg

\* C6: if attempts 0..k-1 were rejected and attempt k is accepted, the run
\* reports success at loop index k and wrong_case holds exactly k entries.
C6_SuccessAtIndexK ==
    \A k \in 0..(max_attempts - 1) :
        (Len(verdicts) = k + 1 /\ verdicts[k + 1] /\ \A i \in 1..k : ~verdicts[i]) =>
            /\ attempt = k
            /\ Len(wrong_case) = k
            /\ "solved" \in log
            /\ pc \in {"report", "summary", "done"}

C6_Witness ==
    /\ verdicts = <<FALSE, FALSE, TRUE>> /\ attempt = 2 /\ Len(wrong_case) = 2
    /\ pc = "done"

\* C7: when all max_attempts verdicts are rejected the run ends without the
\* success report, and the failure detail of the last attempt is the last
\* entry of wrong_case.
C7_ExhaustedKeepsLastFailure ==
    (pc \in {"summary", "done"} /\ AllRejected(max_attempts)) =>
        /\ "solved" \notin log
        /\ propagated = "none"
        /\ attempt = max_attempts
        /\ Len(wrong_case) = max_attempts
        /\ lastRead.attempt = max_attempts - 1
        /\ wrong_case[max_attempts] = lastRead.text

C7_Witness ==
    /\ pc = "done" /\ AllRejected(max_attempts)
    /\ wrong_case[max_attempts] = <<"Wrong Answer">>
    /\ wrong_case[1] = <<>>

\* C8 as stated: the length of wrong_case equals the number of iterations
\* completed without an exception, the recorded loop indices are 0, 1, 2, ...
\* and no entry is ever removed.
C8_HistoryCountsIterations ==
    /\ [](/\ Len(wrong_case) = Len(verdicts)
          /\ recorded = [i \in 1..Len(wrong_case) |-> i - 1])
    /\ [][IsPrefix(wrong_case, wrong_case')]_vars

\* C8 amended: the length of wrong_case equals the number of iterations that
\* completed without an exception and with a rejected verdict (the accepted
\* iteration appends nothing); the recorded loop indices are 0, 1, 2, ...
\* and no entry is ever removed or changed.
C8_HistoryCountsRejections ==
    /\ [](/\ Len(wrong_case) = RejectedCount
          /\ recorded = [i \in 1..Len(wrong_case) |-> i - 1])
    /\ [][IsPrefix(wrong_case, wrong_case')]_vars

C8_Witness ==
    /\ pc = "done" /\ verdicts = <<FALSE, FALSE, FALSE, TRUE>>
    /\ Len(wrong_case) = 3 /\ recorded = <<0, 1, 2>>

\* C10: the text solve_problem returns has no leading and no trailing fence
\* marker: a reply wrapped in fences comes back without them, a reply with
\* no fence comes back unchanged.
StripFences(text) ==
    LET from == IF HasLeadingFence(text) THEN 2 ELSE 1
        to   == IF HasTrailingFence(text) /\ Len(text) >= from
                THEN Len(text) - 1 ELSE Len(text)
    IN  SubSeq(text, from, to)

C10_FencesStripped ==
    lastChat = "ok" =>
        /\ ~HasLeadingFence(result_code)
        /\ ~HasTrailingFence(result_code)
        /\ result_code = StripFences(rawReply)

----------------------------------------------------------------------------
(* Properties of the tool surface (checked under ToolSpec).                *)

\* C9: writeAnswer with autoSubmit = false writes the content and never
\* clicks submit, however many times write_solution_code is called.
C9_NoSubmitWithoutAutoSubmit ==
    /\ submitClicks = 0
    /\ ~Contains(pageOps, "submit")
    /\ lastSubmitted = <<>>
    /\ toolReturn = "written" => (editor = toolCode /\ clipboard = toolCode)

C9_Witness ==
    /\ toolWrites = MaxToolCalls /\ toolReturn = "written"
    /\ editor = <<"code">> /\ submitClicks = 0

----------------------------------------------------------------------------
(* Properties of the tool surface (checked under ToolSpec).                *)

PageTools == {"goto_url", "go_to_daily_problem", "get_problem_description",
              "write_solution_code"}

\* the latest call was a call of a tool in names made while the handle was
\* None
CalledWithoutSession(names) == lastTool.name \in names /\ ~lastTool.open

\* C11 as stated: each of goto_url, go_to_daily_problem,
\* get_problem_description, write_solution_code and close_browser, called
\* with no session open, returns the no-session message.
C11_EveryToolReturnsTheMessage ==
    CalledWithoutSession(PageTools \cup {"close_browser"})
        => toolReturn = no_browser_session_message

\* C11 amended: called with no session open, each of the four page tools
\* returns the no-session message and close_browser returns its own
\* already-closed message; none of the five raises, and none touches the
\* page.
C11_NoSessionCallsAreInert ==
    /\ [](/\ CalledWithoutSession(PageTools)
               => toolReturn = no_browser_session_message /\ pageOps = <<>>
          /\ CalledWithoutSession({"close_browser"})
               => toolReturn = "Browser has already been closed." /\ pageOps = <<>>)
    /\ [][(lastTool'.name \in PageTools \cup {"close_browser"} /\ ~lastTool'.open)
            => UNCHANGED <<editor, clipboard, submitClicks, lastSubmitted,
                           browser_manager, liveSessions>>]_vars

\* a page tool is called after a session was opened, used and closed
C11_Witness ==
    /\ CalledWithoutSession({"get_problem_description"})
    /\ toolReturn = no_browser_session_message
    /\ toolWrites > 0
    /\ editor # Starter

----------------------------------------------------------------------------
(* Properties of the process and of the teardown (checked under MainSpec). *)

Has(e) == \E i \in 1..Len(events) : events[i] = e

Before(a, b) ==
    \E i, j \in 1..Len(events) : i < j /\ events[i] = a /\ events[j] = b

\* the automation run ended in a failure: an exception that is not the
\* user's interrupt
Failure ==
    /\ proc = "exited"
    /\ ~args.interactive
    /\ cause \notin {"none", "KeyboardInterrupt", "CancelledError"}

\* C13 as stated: once the session block has been left, whether the run
\* succeeded, ran out of attempts or raised, the page, the context, the
\* browser and the driver acquired on entry are all released.
C13_AllReleasedOnLeave == teardown # "none" => live = {}

C15_TeardownErrorsStayInside ==
    teardown # "none"
        => /\ propagated = original
           /\ teardown = "aborted" => "cleanup_error" \in log
           /\ original # "none" => pc = "failed"
           /\ proc = "exited" => cause = original

\* the page write fails, then a close of the teardown fails as well
C15_Witness ==
    /\ teardown = "aborted"
    /\ original = "PageError"
    /\ live # {}
    /\ proc = "exited"
    /\ cause = "PageError"
    /\ exitStatus = 1

C19_FailuresExitNonZero ==
    (proc = "exited" /\ cause \in {"ValueError", "PageError", "TimeoutError"})
        => exitStatus # 0

----------------------------------------------------------------------------
(* Properties of the conversation state (checked under AgentSpec).         *)

\* C16: a call of chat whose model call fails leaves conversation_history
\* and chat_history exactly as they were: neither the user message nor an
\* assistant message is added.
C16_FailedChatLeavesHistory ==
    [][(chatCalls' = chatCalls + 1 /\ lastChat' = "error")
        => UNCHANGED <<conversation_history, chat_history>>]_vars

\* the model call fails on a conversation that already holds an exchange
C16_Witness ==
    /\ lastCall = "chat"
    /\ lastChat = "error"
    /\ chatCalls = 2
    /\ conversation_history = <<"system", "user", "assistant">>
    /\ chat_history = <<"system", "user", "assistant">>

\* C17: a call of chat or add_message only adds to the end of
\* conversation_history and of chat_history (what was there stays, in the
\* same order); only clear_conversation shortens them, and it leaves
\* exactly the system message in each.
C17_HistoryOnlyGrows ==
    [][IF lastCall' = "clear_conversation" /\ "cleared" \in log'
       THEN conversation_history' = NewHistory /\ chat_history' = NewHistory
       ELSE /\ IsPrefix(conversation_history, conversation_history')
            /\ IsPrefix(chat_history, chat_history')]_vars

\* the conversation grows again after it was cleared
C17_Witness ==
    /\ "cleared" \in log
    /\ lastCall = "add_message"
    /\ chatCalls > 0
    /\ conversation_history = <<"system", "tool", "user">>
    /\ chat_history = <<"system", "user">>

----------------------------------------------------------------------------
(* Properties of the acquisition and of the release of the session         *)
(* (checked under MainSpec).                                               *)

\* the order in which the teardown is to release
ReleaseOrder == <<"page", "context", "browser", "driver">>

\* the resources that come after r in the release order
LaterThan(r) ==
    {ReleaseOrder[j] : j \in {k \in 1..Len(ReleaseOrder) :
                                \E i \in 1..Len(ReleaseOrder) :
                                    ReleaseOrder[i] = r /\ i < k}}

\* C21: the teardown closes the page first, then the context, then the
\* browser, and stops the driver last: what it has closed is always an
\* initial part of that order, and nothing is closed outside the teardown.
C21_ReleaseInFixedOrder ==
    /\ IsPrefix(closeLog, ReleaseOrder)
    /\ teardown = "none" => closeLog = <<>>
    /\ teardown = "completed" => closeLog = ReleaseOrder
    /\ live = Resources \ {closeLog[i] : i \in 1..Len(closeLog)}
        \/ resources = "None"

\* the block is left by a failed page write and every close succeeds
C21_Witness ==
    /\ teardown = "completed"
    /\ original = "PageError"
    /\ closeLog = <<"page", "context", "browser", "driver">>
    /\ live = {}

\* C22 as stated: when the close of the page, of the context or of the
\* browser raises inside cleanup_playwright, every resource after it in the
\* order, the driver included, is still closed.
C22_LaterClosesStillHappen ==
    failedClose # "none" => LaterThan(failedClose) \cap live = {}

\* C23 as stated: when init_playwright raises after it has started the
\* driver or the browser, what it had started is released: nothing stays
\* live after the failed acquisition.
C23_FailedAcquisitionReleases ==
    (pc = "failed" /\ propagated = "SessionError") => live = {}

----------------------------------------------------------------------------
(* Properties of close_browser (checked under ToolSpec).                   *)

----------------------------------------------------------------------------
(* Properties of the prompts, of the failure list and of the verdict read  *)
(* (checked under Spec).                                                   *)

\* C25: the prompt of every attempt k > 0 holds exactly one failure detail,
\* the one recorded for attempt k - 1, and neither the problem statement
\* nor the starter code.
C25_PromptHoldsLatestFailureOnly ==
    lastPrompt.attempt > 0
        => /\ Len(lastPrompt.details) = 1
           /\ lastPrompt.attempt <= Len(wrong_case)
           /\ recorded[lastPrompt.attempt] = lastPrompt.attempt - 1
           /\ lastPrompt.details[1] = wrong_case[lastPrompt.attempt]
           /\ ~lastPrompt.problem
           /\ ~lastPrompt.starter

\* the third prompt is sent after two rejections with different details
C25_Witness ==
    /\ pc = "write"
    /\ lastPrompt.attempt = 2
    /\ wrong_case = <<<<>>, <<"Wrong Answer">>>>
    /\ lastPrompt.details = <<<<"Wrong Answer">>>>

\* C26: when attempt k starts the failure list has exactly k entries, so
\* solve_problem never reads wrong_case[-1] of an empty list after the
\* first attempt; the list only grows, by one entry for each rejected
\* verdict.
C26_FailureListTracksAttempt ==
    /\ [](/\ pc \in {"solve", "write", "verdict"} => Len(wrong_case) = attempt
          /\ propagated # "IndexError"
          /\ Len(wrong_case) = RejectedCount)
    /\ [][/\ IsPrefix(wrong_case, wrong_case')
           /\ Len(wrong_case') <= Len(wrong_case) + 1]_vars

\* the last attempt starts with four failures on the list
C26_Witness ==
    /\ pc = "solve"
    /\ attempt = max_attempts - 1
    /\ Len(wrong_case) = max_attempts - 1
    /\ RejectedCount = max_attempts - 1

\* each of delete, paste and submit comes right after the operation that
\* is to precede it
InWriteOrder(ops) ==
    \A i \in 1..Len(ops) :
        /\ ops[i] = "delete" => (i > 1 /\ ops[i - 1] = "select_all")
        /\ ops[i] = "paste" => (i > 1 /\ ops[i - 1] = "delete")
        /\ ops[i] = "submit" => (i > 1 /\ ops[i - 1] = "paste")

\* C27: writeAnswer selects all, deletes and pastes in that order with
\* nothing in between, clicks submit only after the paste, and the verdict
\* is never read between the delete and the paste: whenever grab_result is
\* about to run the paste is done and the editor holds the whole code that
\* was submitted.
C27_EditorReplacedInOneStep ==
    /\ InWriteOrder(pageOps)
    /\ pc = "verdict"
         => /\ Contains(pageOps, "paste")
            /\ editor = result_code
            /\ lastSubmitted = result_code
    /\ (Contains(pageOps, "delete") /\ ~Contains(pageOps, "paste"))
         => pc = "failed" /\ lastRead.attempt < attempt

\* the second write raises between the delete and the paste
C27_Witness ==
    /\ pc = "failed"
    /\ fault = "write"
    /\ attempt = 1
    /\ pageOps = <<"click_editor", "clipboard_write", "select_all", "delete">>
    /\ editor = <<>>
    /\ Len(verdicts) = 1
    /\ lastRead.attempt = 0

\* C28: grab_result classifies every text it reads from the result panel:
\* with the accepted marker in it the verdict is accepted and the failure
\* list is left alone; without, the verdict is rejected and the text is
\* appended to the failure list as it was read.
C28_EveryTextIsClassified ==
    [][(pc = "verdict" /\ lastRead'.present)
        => IF Contains(lastRead'.text, AcceptedMarker)
           THEN /\ verdicts' = Append(verdicts, TRUE)
                /\ wrong_case' = wrong_case
                /\ pc' = "report"
           ELSE /\ verdicts' = Append(verdicts, FALSE)
                /\ wrong_case' = Append(wrong_case, lastRead'.text)
                /\ pc' \in {"solve", "summary"}]_vars

\* a rejection with its text on the list is followed by an accepted verdict
C28_Witness ==
    /\ verdicts = <<FALSE, TRUE>>
    /\ wrong_case = <<<<"Wrong Answer">>>>
    /\ lastRead.text = <<AcceptedMarker>>
    /\ pc = "report"

----------------------------------------------------------------------------
(* The file tools. *)

\* C29: a CreateFile call that gives overwrite as false, or leaves it out,
\* on a file that exists leaves the content of the file as it was and
\* returns the file-already-exists message.
C29_NoOverwriteKeepsTheFile ==
    [][(/\ lastCall' = "execute_tool_call"
        /\ lastToolCall'.name = "CreateFile"
        /\ ~lastToolCall'.badArgs
        /\ lastToolCall'.overwrite \in {"false", "omitted"}
        /\ files # Absent)
          => (files' = files /\ toolResult' = "already_exists")]_vars

\* C30: execute_tool_call returns a string in every case: the unknown-tool
\* message, with the file untouched, for a name that is none of the three
\* tools, and an error message when the handler raises; a chat whose model
\* call succeeded appends the user and the assistant message whatever its
\* tool calls did.
C30_ToolCallsNeverRaise ==
    [][/\ lastCall' = "execute_tool_call"
          => /\ toolResult' # "raise"
             /\ lastToolCall'.name \notin ToolNames
                   => (toolResult' = "unknown_tool" /\ files' = files)
             /\ (lastToolCall'.name \in ToolNames /\ lastToolCall'.badArgs)
                   => toolResult' = "error"
       /\ (chatCalls' = chatCalls + 1 /\ lastChat' = "ok")
          => /\ lastChatTools' # "raised"
             /\ conversation_history'
                  = conversation_history \o <<"user", "assistant">>
             /\ chat_history' = chat_history \o <<"user", "assistant">>]_vars

\* a chat whose tool call failed has appended both messages
C30_Witness ==
    /\ lastCall = "chat"
    /\ lastChat = "ok"
    /\ lastChatTools = "failed"
    /\ conversation_history = <<"system", "user", "assistant">>

----------------------------------------------------------------------------
(* The two histories of the AiAgent. *)

Count(history, role) ==
    Cardinality({i \in 1..Len(history) : history[i] = role})

\* C31: after any sequence of chat and clear_conversation calls the two
\* histories hold the same roles in the same order, start with the system
\* message, hold as many user as assistant messages, and have one message
\* plus two for each chat the model answered since the last clear.
C31_HistoriesStayAligned ==
    proc = "chatting"
      => /\ chat_history = conversation_history
         /\ Len(conversation_history) >= 1
         /\ conversation_history[1] = "system"
         /\ Count(conversation_history, "user")
              = Count(conversation_history, "assistant")
         /\ Len(conversation_history) = 1 + 2 * okChats

\* two answered chats and a failed one after a clear
C31_Witness ==
    /\ proc = "chatting"
    /\ "cleared" \in log
    /\ "chat_error" \in log
    /\ okChats = 2
    /\ Len(chat_history) = 5

----------------------------------------------------------------------------
(* The shared logger. *)

\* C32 as stated: once the LeetCodeAgent, the browser manager and the AI
\* agent have been built, the logger has the level given by --log-level and
\* exactly one handler.
C32_LogLevelStays ==
    (pc # "new" /\ credential)
        => (logger.level = args.log_level /\ logger.handlers = 1)

====
